---- MODULE Spec2Model ----
(***************************************************************************)
(* A model of osgEarth's threading primitives (src/osgEarth/Threading and  *)
(* Threading.cpp): Event, Future/Promise, Gate, ReadWriteMutex and         *)
(* ThreadPool.  Every primitive is a state machine whose steps are the     *)
(* points at which the C++ code can be interleaved with other threads:     *)
(* acquiring the primitive's Mutex, the body executed under it, blocking   *)
(* on the condition variable (which releases the Mutex), being woken, and  *)
(* the accesses the code makes without holding the Mutex.                  *)
(*                                                                         *)
(* A std::condition_variable_any wait may end by notify_all, by the        *)
(* timeout of wait_for, or spuriously; all three are modelled.             *)
(***************************************************************************)
EXTENDS Integers, Sequences, FiniteSets

\* ------------------------------------------------------------------ bounds

\* Number of application threads using an Event, a Future/Promise pair, a Gate
\* or a ReadWriteMutex.
NThreads == 3

Threads == 1..NThreads

\* "No thread": the value of a Mutex that nobody holds.
None == 0

\* The null pointer: the "no value" result of Future::get / release (0L).
Null == 0

VARIABLES
    \* Event (Threading:166-169)
    ev_set,      \* Event::_set
    ev_m,        \* Event::_m : the thread holding it, or None
    ev_cond,     \* Event::_cond : the threads blocked in it
    epc,         \* per thread: where it is inside an Event method
    eop,         \* per thread: the Event method it is executing
    eret,        \* per thread: the value the Event method returned
    etimeout,    \* per thread: the timeout of its wait_for has elapsed
    \* history of the Event, for the properties
    ev_inwin,    \* per thread: its current call began after a set() had
                 \* completed, and _set was not cleared since
    ev_sawset,   \* per thread: a set() has completed while it was blocked
                 \* in its current call
    edpc,        \* the place of the thread destroying the Event in ~Event
    \* Future / Promise (Threading:190-302)
    fut_obj,     \* Future::_objRef->_obj : the result, or Null
    fut_ref,     \* _objRef->referenceCount() : live Future handles
    promise,     \* the Promise: "alive" or "destroyed"
    ppc,         \* the producer's place inside Promise::resolve
    nresolve,    \* number of resolve() calls made
    fpc,         \* per consumer: its place inside Future::get / release
    fop,         \* per consumer: "get" or "release"
    fcanc,       \* per consumer: a Cancelable was passed
    fres,        \* per consumer: the value get / release returned
    canceled,    \* Cancelable::isCanceled()
    \* history of the Future, for the properties
    fut_released,  \* some release() has taken the result
    \* Gate<T> (Threading:360-363)
    gate_users,    \* Gate::_users : key -> holder count (a map: absent keys
                   \* are not in its domain)
    gate_m,        \* Gate::_m : the thread holding it, or None
    gate_unlocked, \* Gate::_unlocked : the threads blocked in it
    gpc,           \* per thread: its place inside Gate::lock / unlock
    gkey,          \* per thread: the key it is locking, holds or unlocks
    \* ReadWriteMutex (Threading:391-395)
    rw_readers,    \* ReadWriteMutex::_readers
    rw_writers,    \* ReadWriteMutex::_writers
    rw_m,          \* ReadWriteMutex::_m : the thread holding it, or None
    rw_unlocked,   \* ReadWriteMutex::_unlocked : the threads blocked in it
    rpc,           \* per thread: its place inside the ReadWriteMutex methods
    \* ThreadPool (Threading:439-451)
    pool_queue,    \* ThreadPool::_queue
    pool_m,        \* ThreadPool::_queueMutex : the thread holding it, or None
    pool_block,    \* ThreadPool::_block : the workers blocked in it
    pool_done,     \* ThreadPool::_done
    wpc,           \* per worker: its place inside the thread function
    wop,           \* per worker: the operation it holds (its ref_ptr "op")
    cpc,           \* the client thread's place inside ThreadPool::run
    cop,           \* the operation the client is submitting
    dpc,           \* the destroying thread's place inside stopThreads
    djoin,         \* index of the worker stopThreads is joining
    \* history of the ThreadPool, for the properties
    submitted,     \* the operations handed to run()
    nexec          \* per operation: how many times it was executed

evVars == <<ev_set, ev_m, ev_cond, epc, eop, eret, etimeout, ev_inwin, ev_sawset,
           edpc>>

futVars == <<fut_obj, fut_ref, promise, ppc, nresolve, fpc, fop, fcanc, fres,
             canceled, fut_released>>

gateVars == <<gate_users, gate_m, gate_unlocked, gpc, gkey>>

rwVars == <<rw_readers, rw_writers, rw_m, rw_unlocked, rpc>>

poolVars == <<pool_queue, pool_m, pool_block, pool_done, wpc, wop, cpc, cop, dpc, djoin,
              submitted, nexec>>

vars == <<evVars, futVars, gateVars, rwVars, poolVars>>

\* What the methods of Event leave alone.
nonEvVars == <<futVars, gateVars, rwVars, poolVars>>

\* What the methods of Future and Promise leave alone (they use the Event).
nonFutVars == <<gateVars, rwVars, poolVars>>

\* What the methods of Gate leave alone.
nonGateVars == <<evVars, futVars, rwVars, poolVars>>

\* What the methods of ReadWriteMutex leave alone.
nonRwVars == <<evVars, futVars, gateVars, poolVars>>

\* What the ThreadPool leaves alone.
nonPoolVars == <<evVars, futVars, gateVars, rwVars>>

\* ------------------------------------------------------------------ Event

\* The methods of Event that take _m.
EvLockedOps == {"wait", "waitT", "waitAndReset", "set", "reset"}

\* Event::Event() (Threading.cpp:222-226): unset, nobody inside.
EvInit ==
    /\ ev_set = FALSE
    /\ ev_m = None
    /\ ev_cond = {}
    /\ epc = [t \in Threads |-> "idle"]
    /\ eop = [t \in Threads |-> "none"]
    /\ eret = [t \in Threads |-> FALSE]
    /\ etimeout = [t \in Threads |-> FALSE]
    /\ ev_inwin = [t \in Threads |-> FALSE]
    /\ ev_sawset = [t \in Threads |-> FALSE]
    /\ edpc = "alive"

\* A thread enters a locked Event method: std::unique_lock<Mutex> lock(_m)
\* (Threading.cpp:249, 257, 268, 277, 286).  A thread still contending for _m
\* has changed nothing, so the call starts when it obtains _m.
EvBegin(t, op) ==
    /\ epc[t] = "idle"
    /\ ev_m = None
    /\ ev_m' = t
    /\ epc' = [epc EXCEPT ![t] = "locked"]
    /\ eop' = [eop EXCEPT ![t] = op]
    /\ etimeout' = [etimeout EXCEPT ![t] = FALSE]
    /\ ev_inwin' = [ev_inwin EXCEPT ![t] = ev_set]
    /\ ev_sawset' = [ev_sawset EXCEPT ![t] = FALSE]
    /\ UNCHANGED <<ev_set, ev_cond, eret, edpc>>

\* The method returns r; the unique_lock's destructor releases _m.
EvReturn(t, r) ==
    /\ ev_m' = None
    /\ epc' = [epc EXCEPT ![t] = "ret"]
    /\ eret' = [eret EXCEPT ![t] = r]

\* A method with no result of interest returns (set, reset).
EvReturnVoid(t) ==
    /\ ev_m' = None
    /\ epc' = [epc EXCEPT ![t] = "idle"]
    /\ eop' = [eop EXCEPT ![t] = "none"]

\* A set() completes: every thread blocked in a wait has seen a set() occur
\* during its call.
EvSetCompleted ==
    ev_sawset' = [t \in Threads |-> ev_sawset[t] \/ epc[t] = "waiting"]

\* Clearing _set closes the window opened by the last completed set().
EvClearHistory ==
    ev_inwin' = [t \in Threads |-> FALSE]

\* "if (!_set)" of wait(), wait(timeout) and waitAndReset()
\* (Threading.cpp:250, 258, 269).
EvWaitMustBlock_Always == TRUE
EvWaitMustBlock == ~ev_set

\* _cond.wait(lock) / _cond.wait_for(lock, ..): release _m and block, atomically
\* with respect to _m.
EvBlock(t) ==
    /\ epc[t] = "block"
    /\ ev_m = t
    /\ ev_m' = None
    /\ ev_cond' = ev_cond \cup {t}
    /\ epc' = [epc EXCEPT ![t] = "waiting"]

\* The thread is no longer blocked in _cond and re-acquires _m.
EvCanResume(t) ==
    /\ epc[t] = "waiting"
    /\ t \notin ev_cond
    /\ ev_m = None

\* Event::wait() (Threading.cpp:247-253).
EvWait(t) ==
    \/ /\ epc[t] = "locked" /\ eop[t] = "wait" /\ EvWaitMustBlock
       /\ epc' = [epc EXCEPT ![t] = "block"]
       /\ UNCHANGED <<ev_set, ev_m, ev_cond, eop, eret, etimeout, ev_inwin, ev_sawset, edpc, nonEvVars>>
    \/ /\ epc[t] = "locked" /\ eop[t] = "wait" /\ ~EvWaitMustBlock
       /\ EvReturn(t, TRUE)
       /\ UNCHANGED <<ev_set, ev_cond, eop, etimeout, ev_inwin, ev_sawset, edpc, nonEvVars>>
    \/ /\ eop[t] = "wait" /\ EvBlock(t)
       /\ UNCHANGED <<ev_set, eop, eret, etimeout, ev_inwin, ev_sawset, edpc, nonEvVars>>
    \/ /\ eop[t] = "wait" /\ EvCanResume(t)
       /\ ev_sawset' = [ev_sawset EXCEPT ![t] = FALSE]
       /\ EvReturn(t, TRUE)
       /\ UNCHANGED <<ev_set, ev_cond, eop, etimeout, ev_inwin, edpc, nonEvVars>>

\* Event::wait(unsigned timeout_ms) (Threading.cpp:255-264): after wait_for the
\* result is "no_timeout" unless the timeout elapsed; _set is not read again.
EvWaitTimed(t) ==
    \/ /\ epc[t] = "locked" /\ eop[t] = "waitT" /\ EvWaitMustBlock
       /\ epc' = [epc EXCEPT ![t] = "block"]
       /\ UNCHANGED <<ev_set, ev_m, ev_cond, eop, eret, etimeout, ev_inwin, ev_sawset, edpc, nonEvVars>>
    \/ /\ epc[t] = "locked" /\ eop[t] = "waitT" /\ ~EvWaitMustBlock
       /\ EvReturn(t, TRUE)
       /\ UNCHANGED <<ev_set, ev_cond, eop, etimeout, ev_inwin, ev_sawset, edpc, nonEvVars>>
    \/ /\ eop[t] = "waitT" /\ EvBlock(t)
       /\ UNCHANGED <<ev_set, eop, eret, etimeout, ev_inwin, ev_sawset, edpc, nonEvVars>>
    \/ /\ eop[t] = "waitT" /\ EvCanResume(t)
       /\ ev_sawset' = [ev_sawset EXCEPT ![t] = FALSE]
       /\ EvReturn(t, ~etimeout[t])
       /\ UNCHANGED <<ev_set, ev_cond, eop, etimeout, ev_inwin, edpc, nonEvVars>>

\* The relative timeout of wait_for elapses (Threading.cpp:260): it ends the
\* block if the thread is still blocked, and makes wait_for report
\* cv_status::timeout.
EvTimeout(t) ==
    /\ eop[t] = "waitT"
    /\ epc[t] = "waiting"
    /\ ~etimeout[t]
    /\ etimeout' = [etimeout EXCEPT ![t] = TRUE]
    /\ ev_cond' = ev_cond \ {t}
    /\ UNCHANGED <<ev_set, ev_m, epc, eop, eret, ev_inwin, ev_sawset, edpc, nonEvVars>>

\* A spurious wake-up of a thread blocked in _cond (Threading.cpp:251, 260, 270).
EvSpurious(t) ==
    /\ t \in ev_cond
    /\ ev_cond' = ev_cond \ {t}
    /\ UNCHANGED <<ev_set, ev_m, epc, eop, eret, etimeout, ev_inwin, ev_sawset, edpc, nonEvVars>>

\* Event::waitAndReset() (Threading.cpp:266-273).
EvWaitAndReset(t) ==
    \/ /\ epc[t] = "locked" /\ eop[t] = "waitAndReset" /\ EvWaitMustBlock
       /\ epc' = [epc EXCEPT ![t] = "block"]
       /\ UNCHANGED <<ev_set, ev_m, ev_cond, eop, eret, etimeout, ev_inwin, ev_sawset, edpc, nonEvVars>>
    \/ /\ epc[t] = "locked" /\ eop[t] = "waitAndReset" /\ ~EvWaitMustBlock
       /\ ev_set' = FALSE
       /\ EvReturn(t, TRUE)
       /\ EvClearHistory
       /\ UNCHANGED <<ev_cond, eop, etimeout, ev_sawset, edpc, nonEvVars>>
    \/ /\ eop[t] = "waitAndReset" /\ EvBlock(t)
       /\ UNCHANGED <<ev_set, eop, eret, etimeout, ev_inwin, ev_sawset, edpc, nonEvVars>>
    \/ /\ eop[t] = "waitAndReset" /\ EvCanResume(t)
       /\ ev_sawset' = [ev_sawset EXCEPT ![t] = FALSE]
       /\ ev_set' = FALSE
       /\ EvReturn(t, TRUE)
       /\ EvClearHistory
       /\ UNCHANGED <<ev_cond, eop, etimeout, edpc, nonEvVars>>

\* Event::set() (Threading.cpp:275-282): notify_all unblocks every waiter.
EvSet(t) ==
    \/ /\ epc[t] = "locked" /\ eop[t] = "set" /\ ~ev_set
       /\ ev_set' = TRUE
       /\ ev_cond' = {}
       /\ EvReturnVoid(t)
       /\ ev_inwin' = [ev_inwin EXCEPT ![t] = FALSE]
       /\ EvSetCompleted
       /\ UNCHANGED <<eret, etimeout, edpc, nonEvVars>>
    \/ /\ epc[t] = "locked" /\ eop[t] = "set" /\ ev_set
       /\ EvReturnVoid(t)
       /\ ev_inwin' = [ev_inwin EXCEPT ![t] = FALSE]
       /\ EvSetCompleted
       /\ UNCHANGED <<ev_set, ev_cond, eret, etimeout, edpc, nonEvVars>>

\* Event::reset() (Threading.cpp:284-288).
EvReset(t) ==
    /\ epc[t] = "locked" /\ eop[t] = "reset"
    /\ ev_set' = FALSE
    /\ EvReturnVoid(t)
    /\ EvClearHistory
    /\ UNCHANGED <<ev_cond, eret, etimeout, ev_sawset, edpc, nonEvVars>>

\* Event::isSet() (Threading:162): reads _set without taking _m.
EvIsSet(t) ==
    /\ epc[t] = "idle"
    /\ edpc = "alive"
    /\ epc' = [epc EXCEPT ![t] = "ret"]
    /\ eop' = [eop EXCEPT ![t] = "isSet"]
    /\ eret' = [eret EXCEPT ![t] = ev_set]
    /\ ev_inwin' = [ev_inwin EXCEPT ![t] = ev_set]
    /\ UNCHANGED <<ev_set, ev_m, ev_cond, etimeout, ev_sawset, edpc, nonEvVars>>

\* An application thread calls a locked method of the Event.
EvCall(t) ==
    /\ edpc = "alive"
    /\ \E op \in EvLockedOps : EvBegin(t, op) /\ UNCHANGED nonEvVars

\* The caller takes the result of the method that returned.
EvTakeResult(t) ==
    /\ epc[t] = "ret"
    /\ epc' = [epc EXCEPT ![t] = "idle"]
    /\ eop' = [eop EXCEPT ![t] = "none"]
    /\ eret' = [eret EXCEPT ![t] = FALSE]
    /\ ev_inwin' = [ev_inwin EXCEPT ![t] = FALSE]
    /\ ev_sawset' = [ev_sawset EXCEPT ![t] = FALSE]
    /\ UNCHANGED <<ev_set, ev_m, ev_cond, etimeout, edpc>>

\* An application thread that called the Event directly continues.
EvDone(t) == EvTakeResult(t) /\ UNCHANGED nonEvVars

\* Event::~Event() (Threading.cpp:234-239), run by the owner of the Event
\* without holding _m: "_set = false", then notify_all in a loop (one round or
\* more; each round unblocks every thread blocked in _cond at that time), then
\* the members are destroyed.  No call is started on an Event under
\* destruction; the calls in progress go on.
EvDestroy ==
    \/ /\ edpc = "alive"
       /\ ev_set' = FALSE
       /\ EvClearHistory
       /\ edpc' = "notify"
       /\ UNCHANGED <<ev_m, ev_cond, epc, eop, eret, etimeout, ev_sawset, nonEvVars>>
    \/ /\ edpc = "notify"
       /\ ev_cond' = {}
       /\ \E last \in BOOLEAN : edpc' = IF last THEN "destroyed" ELSE "notify"
       /\ UNCHANGED <<ev_set, ev_m, epc, eop, eret, etimeout, ev_inwin, ev_sawset,
                      nonEvVars>>

\* ------------------------------------------------------- Future / Promise

\* resolve() calls made on one Promise (the API does not forbid a second one).
MaxResolve == 2

\* The results a producer resolves a Promise with (non-null T*): the n-th call
\* passes the value n.
Values == 1..MaxResolve

\* The thread owning the Promise, and the two threads that hold Future copies
\* and call get / release on them.
Producer == 1
Consumers == {2, 3}

\* Promise::Promise() (Threading:277) builds its Future (Threading:202-205):
\* a fresh event, an empty result cell referenced once.
FutInit ==
    /\ fut_obj = Null
    /\ fut_ref = 1
    /\ promise = "alive"
    /\ ppc = "idle"
    /\ nresolve = 0
    /\ fpc = [t \in Consumers |-> "none"]
    /\ fop = [t \in Consumers |-> "none"]
    /\ fcanc = [t \in Consumers |-> FALSE]
    /\ fres = [t \in Consumers |-> Null]
    /\ canceled = FALSE
    /\ fut_released = FALSE

\* Future::isAbandoned() (Threading:221-223).
FutIsAbandoned_NoRef == fut_ref = 0
FutIsAbandoned == fut_ref = 1

\* Promise::isAbandoned() (Threading:296-298).
PromiseIsAbandoned == fut_ref = 1

\* Promise::getFuture() (Threading:282) or the copy constructor of a live
\* Future (Threading:213): one more handle on the shared cell.
FutCopy(t) ==
    /\ fpc[t] = "none"
    /\ \/ promise = "alive"
       \/ \E u \in Consumers : fpc[u] # "none"
    /\ fpc' = [fpc EXCEPT ![t] = "has"]
    /\ fut_ref' = fut_ref + 1
    /\ UNCHANGED <<fut_obj, promise, ppc, nresolve, fop, fcanc, fres, canceled,
                   fut_released, evVars, nonFutVars>>

\* A Future handle that is not inside get / release is destroyed: the osg::ref_ptr
\* members (Threading:260-261) drop their reference.
FutDestroy(t) ==
    /\ fpc[t] = "has"
    /\ fpc' = [fpc EXCEPT ![t] = "none"]
    /\ fut_ref' = fut_ref - 1
    /\ UNCHANGED <<fut_obj, promise, ppc, nresolve, fop, fcanc, fres, canceled,
                   fut_released, evVars, nonFutVars>>

\* A consumer calls get(), get(cancelable), release() or release(cancelable).
FutEnter(t) ==
    /\ fpc[t] = "has"
    /\ \E op \in {"get", "release"}, c \in BOOLEAN :
          /\ fop' = [fop EXCEPT ![t] = op]
          /\ fcanc' = [fcanc EXCEPT ![t] = c]
    /\ fpc' = [fpc EXCEPT ![t] = "call"]
    /\ UNCHANGED <<fut_obj, fut_ref, promise, ppc, nresolve, fres, canceled,
                   fut_released, evVars, nonFutVars>>

\* "cancelable->isCanceled()" (Threading:235, 252).
FutIsCanceled_Never == FALSE
FutIsCanceled == canceled

\* The method returns r.
FutFinish(t, r) ==
    /\ fpc' = [fpc EXCEPT ![t] = "done"]
    /\ fres' = [fres EXCEPT ![t] = r]

\* "while(!_ev->wait(1000u)) { if (isAbandoned()) return 0L;
\*   if (cancelable && cancelable->isCanceled()) return 0L; }"
\* (Threading:227-228, 233-236, 242-243, 250-253).
FutWaitLoop(t) ==
    \/ /\ fpc[t] = "call"
       /\ EvBegin(t, "waitT")
       /\ fpc' = [fpc EXCEPT ![t] = "wait"]
       /\ UNCHANGED <<fut_obj, fut_ref, promise, ppc, nresolve, fop, fcanc, fres,
                      canceled, fut_released, nonFutVars>>
    \/ /\ fpc[t] = "wait" /\ epc[t] = "ret" /\ eret[t]
       /\ EvTakeResult(t)
       /\ fpc' = [fpc EXCEPT ![t] = "value"]
       /\ UNCHANGED <<fut_obj, fut_ref, promise, ppc, nresolve, fop, fcanc, fres,
                      canceled, fut_released, nonFutVars>>
    \/ /\ fpc[t] = "wait" /\ epc[t] = "ret" /\ ~eret[t]
       /\ EvTakeResult(t)
       /\ fpc' = [fpc EXCEPT ![t] = "chk"]
       /\ UNCHANGED <<fut_obj, fut_ref, promise, ppc, nresolve, fop, fcanc, fres,
                      canceled, fut_released, nonFutVars>>
    \/ /\ fpc[t] = "chk" /\ FutIsAbandoned
       /\ FutFinish(t, Null)
       /\ UNCHANGED <<fut_obj, fut_ref, promise, ppc, nresolve, fop, fcanc,
                      canceled, fut_released, evVars, nonFutVars>>
    \/ /\ fpc[t] = "chk" /\ ~FutIsAbandoned
       /\ fpc' = [fpc EXCEPT ![t] = IF fcanc[t] THEN "cchk" ELSE "call"]
       /\ UNCHANGED <<fut_obj, fut_ref, promise, ppc, nresolve, fop, fcanc, fres,
                      canceled, fut_released, evVars, nonFutVars>>
    \/ /\ fpc[t] = "cchk" /\ FutIsCanceled
       /\ FutFinish(t, Null)
       /\ UNCHANGED <<fut_obj, fut_ref, promise, ppc, nresolve, fop, fcanc,
                      canceled, fut_released, evVars, nonFutVars>>
    \/ /\ fpc[t] = "cchk" /\ ~FutIsCanceled
       /\ fpc' = [fpc EXCEPT ![t] = "call"]
       /\ UNCHANGED <<fut_obj, fut_ref, promise, ppc, nresolve, fop, fcanc, fres,
                      canceled, fut_released, evVars, nonFutVars>>

\* "return _objRef->_obj.get();" of get() and get(cancelable) (Threading:229, 237).
FutGet(t) ==
    /\ fpc[t] = "value" /\ fop[t] = "get"
    /\ FutFinish(t, fut_obj)
    /\ UNCHANGED <<fut_obj, fut_ref, promise, ppc, nresolve, fop, fcanc,
                   canceled, fut_released, evVars, nonFutVars>>

\* "T* out = _objRef->_obj.release(); _ev->reset(); return out;" of release()
\* and release(cancelable) (Threading:244-246, 254-256).
FutRelease(t) ==
    \/ /\ fpc[t] = "value" /\ fop[t] = "release"
       /\ fres' = [fres EXCEPT ![t] = fut_obj]
       /\ fut_obj' = Null
       /\ fut_released' = TRUE
       /\ fpc' = [fpc EXCEPT ![t] = "reset"]
       /\ UNCHANGED <<fut_ref, promise, ppc, nresolve, fop, fcanc,
                      canceled, evVars, nonFutVars>>
    \/ /\ fpc[t] = "reset"
       /\ EvBegin(t, "reset")
       /\ fpc' = [fpc EXCEPT ![t] = "resetting"]
       /\ UNCHANGED <<fut_obj, fut_ref, promise, ppc, nresolve, fop, fcanc, fres,
                      canceled, fut_released, nonFutVars>>
    \/ /\ fpc[t] = "resetting" /\ epc[t] = "idle"
       /\ fpc' = [fpc EXCEPT ![t] = "done"]
       /\ UNCHANGED <<fut_obj, fut_ref, promise, ppc, nresolve, fop, fcanc, fres,
                      canceled, fut_released, evVars, nonFutVars>>

\* The consumer takes the value get / release returned.
FutReturn(t) ==
    /\ fpc[t] = "done"
    /\ fpc' = [fpc EXCEPT ![t] = "has"]
    /\ fop' = [fop EXCEPT ![t] = "none"]
    /\ fcanc' = [fcanc EXCEPT ![t] = FALSE]
    /\ fres' = [fres EXCEPT ![t] = Null]
    /\ UNCHANGED <<fut_obj, fut_ref, promise, ppc, nresolve,
                   canceled, fut_released, evVars, nonFutVars>>

\* The Cancelable passed to get / release becomes canceled (Threading:117).
Cancel ==
    /\ ~canceled
    /\ canceled' = TRUE
    /\ UNCHANGED <<fut_obj, fut_ref, promise, ppc, nresolve, fpc, fop, fcanc, fres,
                   fut_released, evVars, nonFutVars>>

\* Promise::resolve(value) (Threading:285-288): the store of the result, made
\* without any lock, then _ev->set().
PromiseResolve ==
    \/ /\ promise = "alive" /\ ppc = "idle" /\ nresolve < MaxResolve
       /\ nresolve' = nresolve + 1
       /\ fut_obj' = nresolve'
       /\ ppc' = "stored"
       /\ UNCHANGED <<fut_ref, promise, fpc, fop, fcanc, fres, canceled,
                      fut_released, evVars, nonFutVars>>
    \/ /\ ppc = "stored"
       /\ EvBegin(Producer, "set")
       /\ ppc' = "setting"
       /\ UNCHANGED <<fut_obj, fut_ref, promise, nresolve, fpc, fop, fcanc, fres,
                      canceled, fut_released, nonFutVars>>
    \/ /\ ppc = "setting" /\ epc[Producer] = "idle"
       /\ ppc' = "idle"
       /\ UNCHANGED <<fut_obj, fut_ref, promise, nresolve, fpc, fop, fcanc, fres,
                      canceled, fut_released, evVars, nonFutVars>>

\* The Promise is destroyed: its own Future (Threading:301) drops its reference.
PromiseDestroy ==
    /\ promise = "alive" /\ ppc = "idle"
    /\ promise' = "destroyed"
    /\ fut_ref' = fut_ref - 1
    /\ UNCHANGED <<fut_obj, ppc, nresolve, fpc, fop, fcanc, fres, canceled,
                   fut_released, evVars, nonFutVars>>

\* The values v for which resolve(v) has run _ev->set() to its end: all those
\* passed so far, but the last one while the producer is still inside resolve.
FutSignalled ==
    IF ppc = "idle" \/ (ppc = "setting" /\ epc[Producer] = "idle")
        THEN 1..nresolve
        ELSE 1..(nresolve - 1)

\* ------------------------------------------------------------------- Gate

\* Number of distinct keys used with the Gate.
NKeys == 2

Keys == 1..NKeys

\* Gate::Gate() (Threading:336): an empty map.
GateInit ==
    /\ gate_users = <<>>
    /\ gate_m = None
    /\ gate_unlocked = {}
    /\ gpc = [t \in Threads |-> "idle"]
    /\ gkey = [t \in Threads |-> None]

\* std::unordered_map::operator[] : the value at k, 0 for a key it has to insert.
UsersAt(k) == IF k \in DOMAIN gate_users THEN gate_users[k] ELSE 0

\* The map after "_users[k] = n" (operator[] inserts the key if absent).
UsersWith(k, n) ==
    [x \in (DOMAIN gate_users) \cup {k} |-> IF x = k THEN n ELSE gate_users[x]]

\* The map after "_users.erase(k)".
UsersWithout_Kept(k) == gate_users
UsersWithout(k) == [x \in (DOMAIN gate_users) \ {k} |-> gate_users[x]]

\* "while(_users[key] > 0)" (Threading:342).
GateMustWait_OffByOne(k) == UsersAt(k) > 1
GateMustWait_AnyKey(k) == \E x \in DOMAIN gate_users : gate_users[x] > 0
GateMustWait(k) == UsersAt(k) > 0

\* Gate::lock(key) (Threading:340-345).
GateLock(t) ==
    \/ /\ gpc[t] = "idle" /\ gate_m = None
       /\ \E k \in Keys : gkey' = [gkey EXCEPT ![t] = k]
       /\ gate_m' = t
       /\ gpc' = [gpc EXCEPT ![t] = "test"]
       /\ UNCHANGED <<gate_users, gate_unlocked, nonGateVars>>
    \/ /\ gpc[t] = "test" /\ GateMustWait(gkey[t])
       /\ gate_users' = UsersWith(gkey[t], UsersAt(gkey[t]))
       /\ gate_m' = None
       /\ gate_unlocked' = gate_unlocked \cup {t}
       /\ gpc' = [gpc EXCEPT ![t] = "waiting"]
       /\ UNCHANGED <<gkey, nonGateVars>>
    \/ /\ gpc[t] = "test" /\ ~GateMustWait(gkey[t])
       /\ gate_users' = UsersWith(gkey[t], UsersAt(gkey[t]))
       /\ gpc' = [gpc EXCEPT ![t] = "incr"]
       /\ UNCHANGED <<gate_m, gate_unlocked, gkey, nonGateVars>>
    \/ /\ gpc[t] = "waiting" /\ t \notin gate_unlocked /\ gate_m = None
       /\ gate_m' = t
       /\ gpc' = [gpc EXCEPT ![t] = "test"]
       /\ UNCHANGED <<gate_users, gate_unlocked, gkey, nonGateVars>>
    \/ /\ gpc[t] = "incr"
       /\ gate_users' = UsersWith(gkey[t], UsersAt(gkey[t]) + 1)
       /\ gate_m' = None
       /\ gpc' = [gpc EXCEPT ![t] = "holding"]
       /\ UNCHANGED <<gate_unlocked, gkey, nonGateVars>>

\* A spurious wake-up of a thread blocked in _unlocked (Threading:343).
GateSpurious(t) ==
    /\ t \in gate_unlocked
    /\ gate_unlocked' = gate_unlocked \ {t}
    /\ UNCHANGED <<gate_users, gate_m, gpc, gkey, nonGateVars>>

\* Gate::unlock(key) (Threading:347-354), called by the holder of the key.
GateUnlock(t) ==
    \/ /\ gpc[t] = "holding" /\ gate_m = None
       /\ gate_m' = t
       /\ gpc' = [gpc EXCEPT ![t] = "dec"]
       /\ UNCHANGED <<gate_users, gate_unlocked, gkey, nonGateVars>>
    \/ /\ gpc[t] = "dec"
       /\ gate_users' = UsersWith(gkey[t], UsersAt(gkey[t]) - 1)
       /\ gpc' = [gpc EXCEPT ![t] = "iszero"]
       /\ UNCHANGED <<gate_m, gate_unlocked, gkey, nonGateVars>>
    \/ /\ gpc[t] = "iszero"
       /\ IF UsersAt(gkey[t]) = 0
             THEN /\ gate_users' = UsersWithout(gkey[t])
                  /\ gate_unlocked' = {}
             ELSE UNCHANGED <<gate_users, gate_unlocked>>
       /\ gate_m' = None
       /\ gpc' = [gpc EXCEPT ![t] = "idle"]
       /\ gkey' = [gkey EXCEPT ![t] = None]
       /\ UNCHANGED nonGateVars

\* --------------------------------------------------------- ReadWriteMutex

\* ReadWriteMutex::ReadWriteMutex() (Threading.cpp:292-296).
RwInit ==
    /\ rw_readers = 0
    /\ rw_writers = 0
    /\ rw_m = None
    /\ rw_unlocked = {}
    /\ rpc = [t \in Threads |-> "idle"]

\* "while (_writers > 0)" of read_lock (Threading.cpp:307).
RwReadMustWait_Exclusive == rw_writers > 0 \/ rw_readers > 0
RwReadMustWait_WriterPriority ==
    rw_writers > 0 \/ \E w \in Threads : rpc[w] \in {"wtest", "wwaiting"}
RwReadMustWait == rw_writers > 0

\* "while (_writers > 0 || _readers > 0)" of write_lock (Threading.cpp:323).
RwWriteMustWait_WritersOnly == rw_writers > 0
RwWriteMustWait == rw_writers > 0 \/ rw_readers > 0

\* std::unique_lock<Mutex> lock(_m) at the head of each method.
RwAcquire(t, from, to) ==
    /\ rpc[t] = from
    /\ rw_m = None
    /\ rw_m' = t
    /\ rpc' = [rpc EXCEPT ![t] = to]
    /\ UNCHANGED <<rw_readers, rw_writers, rw_unlocked, nonRwVars>>

\* _unlocked.wait(lock): release _m and block.
RwBlock(t, to) ==
    /\ rw_m' = None
    /\ rw_unlocked' = rw_unlocked \cup {t}
    /\ rpc' = [rpc EXCEPT ![t] = to]
    /\ UNCHANGED <<rw_readers, rw_writers, nonRwVars>>

\* The thread is no longer blocked in _unlocked and re-acquires _m.
RwResume(t, from, to) ==
    /\ t \notin rw_unlocked
    /\ RwAcquire(t, from, to)

\* ReadWriteMutex::read_lock() (Threading.cpp:304-310).
RwReadLock(t) ==
    \/ RwAcquire(t, "idle", "rtest")
    \/ /\ rpc[t] = "rtest" /\ RwReadMustWait
       /\ RwBlock(t, "rwaiting")
    \/ RwResume(t, "rwaiting", "rtest")
    \/ /\ rpc[t] = "rtest" /\ ~RwReadMustWait
       /\ rw_readers' = rw_readers + 1
       /\ rw_m' = None
       /\ rpc' = [rpc EXCEPT ![t] = "reading"]
       /\ UNCHANGED <<rw_writers, rw_unlocked, nonRwVars>>

\* ReadWriteMutex::read_unlock() (Threading.cpp:312-318), called by a reader.
RwReadUnlock(t) ==
    \/ RwAcquire(t, "reading", "runlock")
    \/ /\ rpc[t] = "runlock"
       /\ rw_readers' = rw_readers - 1
       /\ rw_unlocked' = IF rw_readers' = 0 THEN {} ELSE rw_unlocked
       /\ rw_m' = None
       /\ rpc' = [rpc EXCEPT ![t] = "idle"]
       /\ UNCHANGED <<rw_writers, nonRwVars>>

\* ReadWriteMutex::write_lock() (Threading.cpp:320-326).
RwWriteLock(t) ==
    \/ RwAcquire(t, "idle", "wtest")
    \/ /\ rpc[t] = "wtest" /\ RwWriteMustWait
       /\ RwBlock(t, "wwaiting")
    \/ RwResume(t, "wwaiting", "wtest")
    \/ /\ rpc[t] = "wtest" /\ ~RwWriteMustWait
       /\ rw_writers' = rw_writers + 1
       /\ rw_m' = None
       /\ rpc' = [rpc EXCEPT ![t] = "writing"]
       /\ UNCHANGED <<rw_readers, rw_unlocked, nonRwVars>>

\* ReadWriteMutex::write_unlock() (Threading.cpp:328-333), called by the writer.
RwWriteUnlock(t) ==
    \/ RwAcquire(t, "writing", "wunlock")
    \/ /\ rpc[t] = "wunlock"
       /\ rw_writers' = 0
       /\ rw_unlocked' = {}
       /\ rw_m' = None
       /\ rpc' = [rpc EXCEPT ![t] = "idle"]
       /\ UNCHANGED <<rw_readers, nonRwVars>>

\* A spurious wake-up of a thread blocked in _unlocked (Threading.cpp:308, 324).
RwSpurious(t) ==
    /\ t \in rw_unlocked
    /\ rw_unlocked' = rw_unlocked \ {t}
    /\ UNCHANGED <<rw_readers, rw_writers, rw_m, rpc, nonRwVars>>

\* ------------------------------------------------------------- ThreadPool

\* ThreadPool(unsigned numThreads = 2) (Threading:420).
NumThreads == 2

Workers == 1..NumThreads

\* The thread calling run(), and the thread destroying the pool.
Client == NumThreads + 1
Destroyer == NumThreads + 2

\* The operations handed to the pool, and those whose getKeep() is true.
Ops == {"op1", "op2", "op3"}
Keepers == {"op2", "op3"}
NoOp == "none"

\* Executions of one operation that are counted (the count saturates there).
MaxExec == 2

\* ThreadPool::ThreadPool (Threading.cpp:343-349) and startThreads
\* (Threading.cpp:371-414): _done is false and every worker starts its loop.
PoolInit ==
    /\ pool_queue = <<>>
    /\ pool_m = None
    /\ pool_block = {}
    /\ pool_done = FALSE
    /\ wpc = [w \in Workers |-> "loop"]
    /\ wop = [w \in Workers |-> NoOp]
    /\ cpc = "idle"
    /\ cop = NoOp
    /\ dpc = "idle"
    /\ djoin = 1
    /\ submitted = {}
    /\ nexec = [o \in Ops |-> 0]

\* "_block.notify_all()" of run (Threading.cpp:362): the workers still blocked
\* in _block afterwards.
PoolNotifyAll_Nobody == pool_block
PoolNotifyAll == {}

\* ThreadPool::run(op) (Threading.cpp:356-364), for an operation not submitted
\* before; the pool is alive while a client calls it.
PoolRun ==
    \/ /\ cpc = "idle" /\ dpc = "idle" /\ pool_m = None
       /\ \E o \in Ops \ submitted : cop' = o
       /\ pool_m' = Client
       /\ cpc' = "locked"
       /\ UNCHANGED <<pool_queue, pool_block, pool_done, wpc, wop, dpc, djoin,
                      submitted, nexec, nonPoolVars>>
    \/ /\ cpc = "locked"
       /\ pool_queue' = Append(pool_queue, cop)
       /\ pool_block' = PoolNotifyAll
       /\ pool_m' = None
       /\ cpc' = "idle"
       /\ cop' = NoOp
       /\ submitted' = submitted \cup {cop}
       /\ UNCHANGED <<pool_done, wpc, wop, dpc, djoin, nexec, nonPoolVars>>

\* The wait predicate "!_queue.empty() || _done" (Threading.cpp:386-388).
PoolWakePredicate == pool_queue # <<>> \/ pool_done

\* "if (!_queue.empty() && !_done)" (Threading.cpp:390).
PoolMayDequeue_IgnoringDone == pool_queue # <<>>
PoolMayDequeue == pool_queue # <<>> /\ ~pool_done

\* "_queue.pop()" (Threading.cpp:393).
PoolPop_Kept(q) == q
PoolPop(q) == Tail(q)

\* "if (op->getKeep())" (Threading.cpp:403).
PoolKeeps_Always(o) == TRUE
PoolKeeps_Never(o) == FALSE
PoolKeeps(o) == o \in Keepers

\* The thread function of a worker (Threading.cpp:377-412).
PoolWorker(w) ==
    \* while(!_done)
    \/ /\ wpc[w] = "loop"
       /\ wpc' = [wpc EXCEPT ![w] = IF pool_done THEN "exited" ELSE "lock"]
       /\ UNCHANGED <<pool_queue, pool_m, pool_block, pool_done, wop, cpc, cop, dpc,
                      djoin, submitted, nexec, nonPoolVars>>
    \* std::unique_lock<Mutex> lock(_queueMutex)
    \/ /\ wpc[w] = "lock" /\ pool_m = None
       /\ pool_m' = w
       /\ wpc' = [wpc EXCEPT ![w] = "pred"]
       /\ UNCHANGED <<pool_queue, pool_block, pool_done, wop, cpc, cop, dpc,
                      djoin, submitted, nexec, nonPoolVars>>
    \* _block.wait(lock, pred): evaluate the predicate
    \/ /\ wpc[w] = "pred"
       /\ wpc' = [wpc EXCEPT ![w] = IF PoolWakePredicate THEN "check" ELSE "block"]
       /\ UNCHANGED <<pool_queue, pool_m, pool_block, pool_done, wop, cpc, cop, dpc,
                      djoin, submitted, nexec, nonPoolVars>>
    \* _block.wait(lock, pred): release _queueMutex and block
    \/ /\ wpc[w] = "block"
       /\ pool_m' = None
       /\ pool_block' = pool_block \cup {w}
       /\ wpc' = [wpc EXCEPT ![w] = "waiting"]
       /\ UNCHANGED <<pool_queue, pool_done, wop, cpc, cop, dpc,
                      djoin, submitted, nexec, nonPoolVars>>
    \* _block.wait(lock, pred): woken, re-acquire _queueMutex
    \/ /\ wpc[w] = "waiting" /\ w \notin pool_block /\ pool_m = None
       /\ pool_m' = w
       /\ wpc' = [wpc EXCEPT ![w] = "pred"]
       /\ UNCHANGED <<pool_queue, pool_block, pool_done, wop, cpc, cop, dpc,
                      djoin, submitted, nexec, nonPoolVars>>
    \* if (!_queue.empty() && !_done) { op = _queue.front(); _queue.pop(); }
    \* and the end of the locked block; then "if (op.valid())"
    \/ /\ wpc[w] = "check"
       /\ IF PoolMayDequeue
             THEN /\ wop' = [wop EXCEPT ![w] = Head(pool_queue)]
                  /\ pool_queue' = PoolPop(pool_queue)
                  /\ wpc' = [wpc EXCEPT ![w] = "exec"]
             ELSE /\ UNCHANGED <<wop, pool_queue>>
                  /\ wpc' = [wpc EXCEPT ![w] = "loop"]
       /\ pool_m' = None
       /\ UNCHANGED <<pool_block, pool_done, cpc, cop, dpc,
                      djoin, submitted, nexec, nonPoolVars>>
    \* (*op.get())(nullptr)
    \/ /\ wpc[w] = "exec"
       /\ nexec' = [nexec EXCEPT ![wop[w]] = IF @ < MaxExec THEN @ + 1 ELSE @]
       /\ wpc' = [wpc EXCEPT ![w] = "ran"]
       /\ UNCHANGED <<pool_queue, pool_m, pool_block, pool_done, wop, cpc, cop, dpc,
                      djoin, submitted, nonPoolVars>>
    \* if (op->getKeep()) { lock; _queue.push(op); }  op = nullptr;
    \/ /\ wpc[w] = "ran" /\ PoolKeeps(wop[w]) /\ pool_m = None
       /\ pool_queue' = Append(pool_queue, wop[w])
       /\ wop' = [wop EXCEPT ![w] = NoOp]
       /\ wpc' = [wpc EXCEPT ![w] = "loop"]
       /\ UNCHANGED <<pool_m, pool_block, pool_done, cpc, cop, dpc,
                      djoin, submitted, nexec, nonPoolVars>>
    \/ /\ wpc[w] = "ran" /\ ~PoolKeeps(wop[w])
       /\ wop' = [wop EXCEPT ![w] = NoOp]
       /\ wpc' = [wpc EXCEPT ![w] = "loop"]
       /\ UNCHANGED <<pool_queue, pool_m, pool_block, pool_done, cpc, cop, dpc,
                      djoin, submitted, nexec, nonPoolVars>>

\* A spurious wake-up of a worker blocked in _block (Threading.cpp:386).
PoolSpurious(w) ==
    /\ w \in pool_block
    /\ pool_block' = pool_block \ {w}
    /\ UNCHANGED <<pool_queue, pool_m, pool_done, wpc, wop, cpc, cop, dpc,
                   djoin, submitted, nexec, nonPoolVars>>

\* ThreadPool::~ThreadPool (Threading.cpp:351-354) and stopThreads
\* (Threading.cpp:416-436).  _done is written and _block notified without
\* holding _queueMutex.
PoolStopThreads ==
    \* _done = true
    \/ /\ dpc = "idle" /\ cpc = "idle"
       /\ pool_done' = TRUE
       /\ dpc' = "notify"
       /\ UNCHANGED <<pool_queue, pool_m, pool_block, wpc, wop, cpc, cop,
                      djoin, submitted, nexec, nonPoolVars>>
    \* _block.notify_all()
    \/ /\ dpc = "notify"
       /\ pool_block' = {}
       /\ dpc' = "join"
       /\ UNCHANGED <<pool_queue, pool_m, pool_done, wpc, wop, cpc, cop,
                      djoin, submitted, nexec, nonPoolVars>>
    \* _threads[i].join(), i = 0 .. _numThreads-1
    \/ /\ dpc = "join" /\ wpc[djoin] = "exited"
       /\ IF djoin < NumThreads
             THEN /\ djoin' = djoin + 1
                  /\ dpc' = dpc
             ELSE /\ djoin' = djoin
                  /\ dpc' = "clear"
       /\ UNCHANGED <<pool_queue, pool_m, pool_block, pool_done, wpc, wop, cpc, cop,
                      submitted, nexec, nonPoolVars>>
    \* { lock; _queue.swap(Queue()); }
    \/ /\ dpc = "clear" /\ pool_m = None
       /\ pool_queue' = <<>>
       /\ dpc' = "destroyed"
       /\ UNCHANGED <<pool_m, pool_block, pool_done, wpc, wop, cpc, cop,
                      djoin, submitted, nexec, nonPoolVars>>

\* ---------------------------------------------------------- specifications

Init == EvInit /\ FutInit /\ GateInit /\ RwInit /\ PoolInit

NextEvent ==
    \E t \in Threads :
        \/ EvCall(t)
        \/ EvWait(t)
        \/ EvWaitTimed(t)
        \/ EvTimeout(t)
        \/ EvSpurious(t)
        \/ EvWaitAndReset(t)
        \/ EvSet(t)
        \/ EvReset(t)
        \/ EvIsSet(t)
        \/ EvDone(t)

SpecEvent == Init /\ [][NextEvent]_vars

\* The same threads, and the owner of the Event destroying it at any time.
NextEventDestroy ==
    \/ EvDestroy
    \/ NextEvent

SpecEventDestroy == Init /\ [][NextEventDestroy]_vars

\* A Promise on the producer thread and Future copies on the consumer threads.
NextFuture ==
    \/ PromiseResolve
    \/ PromiseDestroy
    \/ Cancel
    \/ EvSet(Producer)
    \/ \E t \in Consumers :
          \/ FutCopy(t)
          \/ FutDestroy(t)
          \/ FutEnter(t)
          \/ FutWaitLoop(t)
          \/ FutGet(t)
          \/ FutRelease(t)
          \/ FutReturn(t)
          \/ EvWaitTimed(t)
          \/ EvTimeout(t)
          \/ EvSpurious(t)
          \/ EvReset(t)

SpecFuture == Init /\ [][NextFuture]_vars

\* What a consumer inside get / release does next by itself: the wait loop, the
\* timed wait it calls, the return of the value and the reset of the event.
FutConsumerStep(t) ==
    \/ FutWaitLoop(t)
    \/ FutGet(t)
    \/ FutRelease(t)
    \/ EvWaitTimed(t)
    \/ EvReset(t)

\* Every thread inside a call keeps being scheduled and obtains a Mutex it
\* contends for; the timeout of a wait_for elapses; a producer inside
\* resolve() finishes it.  Starting a call, copying or destroying a handle,
\* cancelling and spurious wake-ups are under no obligation to happen.
FairSpecFuture ==
    /\ SpecFuture
    /\ \A t \in Consumers : SF_vars(FutConsumerStep(t)) /\ WF_vars(EvTimeout(t))
    /\ SF_vars(PromiseResolve /\ ppc # "idle")
    /\ SF_vars(EvSet(Producer))

\* Fair scheduling of the consumers alone: a consumer inside get / release
\* keeps being scheduled, the timeout of its wait_for elapses, and it obtains
\* the Mutex of the event when it contends for it.  The producer is under no
\* obligation.
FairSpecConsumers ==
    /\ SpecFuture
    /\ \A t \in Consumers : SF_vars(FutConsumerStep(t) \/ EvTimeout(t))

\* Threads locking and unlocking keys of one Gate, one key at a time each.
NextGate ==
    \E t \in Threads :
        \/ GateLock(t)
        \/ GateSpurious(t)
        \/ GateUnlock(t)

SpecGate == Init /\ [][NextGate]_vars

\* Threads taking and releasing one ReadWriteMutex, each call paired.
NextRw ==
    \E t \in Threads :
        \/ RwReadLock(t)
        \/ RwReadUnlock(t)
        \/ RwWriteLock(t)
        \/ RwWriteUnlock(t)
        \/ RwSpurious(t)

SpecRw == Init /\ [][NextRw]_vars

\* A pool of NumThreads workers, a client submitting operations and, at any
\* moment the client is not inside run(), the destruction of the pool.
\* One thread that writes or reads and the other threads that only read, with
\* overlapping holds while the writer is inside write_lock(): a reader then
\* calls read_unlock() only while another reader holds the lock too, so that
\* the reader count does not reach 0.
RwWriter == 1
RwReaderThreads == Threads \ {RwWriter}

RwOverlappingUnlock(t) ==
    /\ (rpc[t] = "reading" /\ rpc[RwWriter] \in {"wtest", "wwaiting"})
          => rw_readers >= 2
    /\ RwReadUnlock(t)

NextRwOverlap ==
    \/ RwWriteLock(RwWriter)
    \/ RwWriteUnlock(RwWriter)
    \/ \E t \in Threads :
          \/ RwReadLock(t)
          \/ RwOverlappingUnlock(t)
          \/ RwSpurious(t)

SpecRwOverlap == Init /\ [][NextRwOverlap]_vars

\* Fair scheduling: every thread keeps being scheduled and obtains _m when it
\* contends for it; the writer keeps calling write_lock / write_unlock and the
\* readers keep calling read_lock / read_unlock.
FairSpecRwOverlap ==
    /\ SpecRwOverlap
    /\ SF_vars(\/ RwWriteLock(RwWriter) \/ RwWriteUnlock(RwWriter)
               \/ RwReadLock(RwWriter) \/ RwOverlappingUnlock(RwWriter))
    /\ \A t \in RwReaderThreads : SF_vars(RwReadLock(t) \/ RwOverlappingUnlock(t))

NextPool ==
    \/ PoolRun
    \/ PoolStopThreads
    \/ \E w \in Workers :
          \/ PoolWorker(w)
          \/ PoolSpurious(w)

SpecPool == Init /\ [][NextPool]_vars

\* Fair scheduling of the pool: every worker thread keeps running and obtains
\* _queueMutex when it contends for it; a client inside run() and a thread
\* inside the destructor finish what they started.  Submitting an operation,
\* starting the destruction and spurious wake-ups are under no obligation.
FairSpecPool ==
    /\ SpecPool
    /\ \A w \in Workers : SF_vars(PoolWorker(w))
    /\ WF_vars(PoolRun /\ cpc = "locked")
    /\ WF_vars(PoolStopThreads /\ dpc # "idle")

\* ------------------------------------------------------------------ claims

\* The threads between the return of Gate::lock(k) and the start of their
\* Gate::unlock(k).
GateHolders(k) == {t \in Threads : gpc[t] = "holding" /\ gkey[t] = k}

\* C1: for every key, at most one thread at a time is between the return of
\* lock(key) and the start of its unlock(key).
GateMutualExclusion == \A k \in Keys : Cardinality(GateHolders(k)) <= 1

\* A key is held while a second thread, woken from the wait on that key, has
\* yet to test the key again, and a third thread holds another key.
GateMutualExclusionWitness ==
    \E t1, t2, t3 \in Threads :
        /\ gpc[t1] = "holding"
        /\ gpc[t2] = "waiting" /\ gkey[t2] = gkey[t1] /\ t2 \notin gate_unlocked
        /\ gpc[t3] = "holding" /\ gkey[t3] # gkey[t1]

\* The threads holding the read lock, and those holding the write lock: from
\* the return of the lock call to the end of the unlock call.
RwReaders == {t \in Threads : rpc[t] \in {"reading", "runlock"}}
RwWriters == {t \in Threads : rpc[t] \in {"writing", "wunlock"}}

\* C2: at most one thread holds the write lock, and while one does no thread
\* holds a read lock.
RwExclusion ==
    /\ Cardinality(RwWriters) <= 1
    /\ RwWriters # {} => RwReaders = {}

\* A writer holds the lock while a reader and a second writer wait for it.
RwExclusionWitness ==
    \E w, r, w2 \in Threads :
        /\ rpc[w] = "writing"
        /\ rpc[r] = "rwaiting"
        /\ rpc[w2] = "wwaiting"

\* The values v for which resolve(v) has returned.
FutResolveReturned == IF ppc = "idle" THEN 1..nresolve ELSE 1..(nresolve - 1)

\* Consumer t returns from get / release in this step.
FutReturns(t) == fpc[t] # "done" /\ fpc'[t] = "done"

\* C3: a get() that returns after a resolve(v) has returned, on a channel no
\* release() has emptied, returns a value passed to resolve and never the
\* "no value" sentinel, also when the Promise was destroyed after resolving.
GetReturnsResolvedValue ==
    [][\A t \in Consumers :
          (FutReturns(t) /\ fop[t] = "get" /\ ~fcanc[t]
             /\ FutResolveReturned # {} /\ ~fut_released)
          => fres'[t] \in 1..nresolve]_vars

\* The places of a consumer inside get() before it returns.
FutInCall == {"call", "wait", "chk", "cchk", "value"}

\* C4: once the Promise is destroyed without any resolve, every get(), whether
\* it was already blocked or is made afterwards, and whatever the number of
\* live Future copies, eventually returns the "no value" sentinel.
AbandonedGetReturnsSentinel ==
    \A t \in Consumers :
        (promise = "destroyed" /\ nresolve = 0 /\ fpc[t] \in FutInCall /\ fop[t] = "get")
            ~> (fpc[t] = "done" /\ fres[t] = Null)

\* C5: get() and get(cancelable) return a non-sentinel value only if a
\* resolve() has stored that value and signalled the event before the return.
GetValueOnlyAfterSignal ==
    [][\A t \in Consumers :
          (FutReturns(t) /\ fop[t] = "get" /\ fres'[t] # Null)
          => fres'[t] \in FutSignalled]_vars

\* C6: once stopThreads has set the shutdown flag, every worker eventually
\* leaves its loop, every join returns and the destruction completes, whatever
\* the place of each worker when the flag is set and the broadcast is made.
PoolDestructionTerminates ==
    pool_done ~> (dpc = "destroyed" /\ \A w \in Workers : wpc[w] = "exited")

\* The number of places (queue slots, workers, the client inside run) that
\* hold operation o.
PoolOccurrences(o) ==
    Cardinality({i \in DOMAIN pool_queue : pool_queue[i] = o})
      + Cardinality({w \in Workers : wop[w] = o})
      + (IF cop = o THEN 1 ELSE 0)

\* Operation o is in the queue.
PoolQueued(o) == \E i \in DOMAIN pool_queue : pool_queue[i] = o

\* A worker has just executed operation o and not yet tested its keep flag.
PoolRan(o) == \E w \in Workers : wpc[w] = "ran" /\ wop[w] = o

\* C7: an operation submitted once whose keep flag is false is executed exactly
\* once: it is held by one place at a time, executed at most once, after its
\* execution it is never in the queue nor about to be executed again, and
\* unless the pool is shut down it is eventually executed.
NonKeptRunsOnce ==
    /\ [](\A o \in Ops \ Keepers :
            /\ nexec[o] <= 1
            /\ PoolOccurrences(o) <= 1
            /\ nexec[o] = 1 =>
                  /\ ~PoolQueued(o)
                  /\ \A w \in Workers : wop[w] = o => wpc[w] = "ran")
    /\ \A o \in Ops \ Keepers :
          (o \in submitted) ~> (nexec[o] = 1 \/ pool_done)

\* The non-kept operation has been executed and dropped while a kept one, which
\* shared the queue with it, has been executed too, and the pool is still up.
NonKeptRunsOnceWitness ==
    /\ ~pool_done
    /\ \E o \in Ops \ Keepers :
          /\ nexec[o] = 1
          /\ PoolOccurrences(o) = 0
    /\ \E k \in Keepers : nexec[k] >= 1

\* C8: an operation whose keep flag stays true is pushed back to the tail of
\* the queue after each execution and, under fair scheduling and as long as no
\* shutdown is requested, is executed again and again, also when other
\* operations share the queue.
KeptRunsAgain ==
    /\ [][\A w \in Workers :
            (wpc[w] = "ran" /\ wop[w] \in Keepers /\ wpc'[w] # "ran")
               => pool_queue' = Append(pool_queue, wop[w])]_vars
    /\ \A o \in Keepers :
          /\ (o \in submitted) ~> (PoolRan(o) \/ pool_done)
          /\ PoolRan(o) ~> (PoolQueued(o) \/ pool_done)

\* A kept operation has been executed the counted number of times and is back
\* in a queue it shares with another operation, the pool being up.
KeptRunsAgainWitness ==
    /\ ~pool_done
    /\ \E o \in Keepers :
          /\ nexec[o] = MaxExec
          /\ Len(pool_queue) >= 2
          /\ pool_queue[Len(pool_queue)] = o

EventSetPersists ==
    \A t \in Threads :
        (ev_inwin[t] /\ eop[t] \in {"wait", "waitT", "isSet"}) =>
            /\ epc[t] \notin {"block", "waiting"}
            /\ (epc[t] = "ret" => eret[t] = TRUE)

\* Two threads have both returned from a wait inside the same window.
EventSetPersistsWitness ==
    \E t1, t2 \in Threads :
        /\ t1 # t2
        /\ ev_inwin[t1] /\ eop[t1] = "wait" /\ epc[t1] = "ret"
        /\ ev_inwin[t2] /\ eop[t2] = "waitT" /\ epc[t2] = "ret"

\* Thread t returns in this step from an Event method in which it blocked.
EvReturnsFromBlock(t, op) ==
    eop[t] = op /\ epc[t] = "waiting" /\ epc'[t] = "ret"

\* C11: a wait(timeout) called while the event is unsignalled (so that it
\* blocks) returns true if and only if a set() has completed before it returns:
\* never true when no set() occurred, never false when one did.
TimedWaitResult ==
    [][\A t \in Threads :
          EvReturnsFromBlock(t, "waitT") => (eret'[t] <=> ev_sawset[t])]_vars

\* C12: after the destructor of an Event has run, no thread remains blocked in
\* wait(), wait(timeout) or waitAndReset() on that event.
NoWaiterAfterDestroy ==
    edpc = "destroyed" => \A t \in Threads : ~(epc[t] = "waiting" /\ t \in ev_cond)

\* Thread t returns in this step from the Event method op.
EvReturns(t, op) ==
    eop[t] = op /\ epc[t] \in {"locked", "waiting"} /\ epc'[t] = "ret"

\* C16: at the moment a wait() call returns, the signalled flag is true, for
\* every interleaving with set() and reset() calls of other threads.
WaitReturnsSignalled ==
    [][\A t \in Threads : EvReturns(t, "wait") => ev_set]_vars

\* C17: a waitAndReset() call returns only by finding the flag signalled and
\* clearing it under _m, so that one unsignalled-to-signalled transition lets
\* one call return and a second call blocks until the next set().
WaitAndResetTakesSignal ==
    [][\A t \in Threads :
          EvReturns(t, "waitAndReset") => (ev_set /\ ~ev_set')]_vars

\* C13: a thread inside lock(k), at the test of the count of k while k has no
\* holder, does not wait on the condition variable, however many other keys
\* are held: holding another key never delays the acquisition of k.
GateKeyIndependence ==
    [][\A t \in Threads :
          (gpc[t] = "test" /\ GateHolders(gkey[t]) = {}) => gpc'[t] # "waiting"]_vars

\* A thread has passed the test of its key without waiting while every other
\* key is held.
GateKeyIndependenceWitness ==
    \E t \in Threads :
        /\ gpc[t] = "incr"
        /\ \A k \in Keys \ {gkey[t]} : GateHolders(k) # {}

\* C14: whenever the writer count is 0, a thread at the test of read_lock()
\* does not wait, however many readers hold the lock, and the reader count is
\* the number of threads holding a read lock.
RwSharedReading ==
    /\ [](rw_readers = Cardinality(RwReaders))
    /\ [][\A t \in Threads :
            (rpc[t] = "rtest" /\ rw_writers = 0) => rpc'[t] # "rwaiting"]_vars

\* Every thread holds a read lock at the same time.
RwSharedReadingWitness ==
    /\ \A t \in Threads : rpc[t] = "reading"
    /\ rw_readers = NThreads

\* C15: a get(cancelable) or release(cancelable) that polls its Cancelable
\* after a timeout and finds it canceled returns the "no value" sentinel at
\* once and leaves the stored value alone; and on a channel that is never
\* resolved, a call in progress whose Cancelable is canceled eventually returns
\* the sentinel.
CancelReturnsSentinel ==
    /\ [][\A t \in Consumers :
            (fpc[t] = "cchk" /\ canceled /\ fpc'[t] # "cchk")
               => (fpc'[t] = "done" /\ fres'[t] = Null /\ fut_obj' = fut_obj)]_vars
    /\ \A t \in Consumers :
          (fcanc[t] /\ canceled /\ fpc[t] \in FutInCall)
             ~> ((fpc[t] = "done" /\ fres[t] = Null) \/ nresolve > 0)

\* A release(cancelable) has returned the sentinel on a channel that is not
\* resolved and not abandoned, the Promise and another handle being alive.
CancelReturnsSentinelWitness ==
    \E t \in Consumers :
        /\ fpc[t] = "done" /\ fop[t] = "release" /\ fcanc[t] /\ fres[t] = Null
        /\ canceled /\ nresolve = 0 /\ promise = "alive" /\ fut_ref = 3

\* C18: in every state in which no thread holds the Gate's internal Mutex,
\* every key present in _users has a count greater than 0, and a key is present
\* exactly when it has a holder (unlock being called by holders only).
GateMapInvariant ==
    gate_m = None =>
        /\ \A k \in DOMAIN gate_users : gate_users[k] > 0
        /\ \A k \in Keys : k \in DOMAIN gate_users <=> GateHolders(k) # {}

\* A key has been erased by the unlock that woke a thread waiting for it, while
\* another key is still present in the map.
GateMapInvariantWitness ==
    /\ gate_m = None
    /\ DOMAIN gate_users # {}
    /\ \E u \in Threads :
          /\ gpc[u] = "waiting" /\ u \notin gate_unlocked
          /\ gkey[u] \notin DOMAIN gate_users

\* The writer is inside write_lock() while a reader holds the lock.
RwWriterBehindReaders ==
    rpc[RwWriter] \in {"wtest", "wwaiting"} /\ rw_readers >= 1

\* C19: writers have no priority: with readers whose holds overlap, under fair
\* scheduling, a writer inside write_lock() behind a reader never obtains the
\* lock, while readers keep calling read_lock() and being admitted (again and
\* again a reader is at the test of read_lock(), and the reader count is 2 or
\* more).
RwWriterStarves ==
    /\ [](RwWriterBehindReaders => [](rpc[RwWriter] # "writing"))
    /\ RwWriterBehindReaders ~> (\E t \in RwReaderThreads : rpc[t] = "rtest")
    /\ RwWriterBehindReaders ~> (rw_readers >= 2)

\* The writer is blocked in write_lock() behind a reader while another reader,
\* inside read_lock(), is about to be admitted.
RwWriterStarvesWitness ==
    /\ rpc[RwWriter] = "wwaiting" /\ RwWriter \in rw_unlocked
    /\ rw_readers >= 1
    /\ \E t \in RwReaderThreads : rpc[t] = "rtest"

\* The number of queue slots and of workers that hold operation o.
PoolCopies(o) ==
    Cardinality({i \in DOMAIN pool_queue : pool_queue[i] = o})
      + Cardinality({w \in Workers : wop[w] = o})

\* C20: an operation submitted once is at every moment in at most one place,
\* one queue slot or one worker, never in the queue and with a worker at the
\* same time and never with two workers; an operation that is kept, or not yet
\* executed, stays in exactly one place until the destructor empties the queue.
PoolSingleOwner ==
    /\ \A o \in Ops : PoolCopies(o) <= 1
    /\ \A o \in submitted :
          (dpc # "destroyed" /\ (o \in Keepers \/ nexec[o] = 0)) => PoolCopies(o) = 1

\* Two workers are about to execute two different operations, one of which has
\* already been executed and pushed back, while a third one is in the queue.
PoolSingleOwnerWitness ==
    \E w1, w2 \in Workers :
        /\ w1 # w2
        /\ wpc[w1] = "exec" /\ wpc[w2] = "exec"
        /\ nexec[wop[w1]] >= 1
        /\ pool_queue # <<>>

\* Consumer t, inside a release() that took a resolved value, executes the
\* _ev->reset() of that release in this step.
FutReleaseResets(t) ==
    /\ fpc[t] = "resetting" /\ fres[t] \in Values
    /\ epc[t] = "locked" /\ epc'[t] = "idle"

\* C21: a release() that returns a resolved value leaves the channel empty for
\* the next cycle: once its reset has run the event is unsignalled and the
\* shared cell holds no value, unless a resolve that has stored the next value
\* is still to signal the event; no resolved value is left in the cell behind
\* an unsignalled event.
ReleaseEmptiesChannel ==
    [][\A t \in Consumers :
          FutReleaseResets(t) =>
              (~ev_set' /\ (fut_obj' = Null \/ ppc = "stored"))]_vars

\* The consumers that own a Future handle (inside a call or not).
FutOwners == {t \in Consumers : fpc[t] # "none"}

PoolDequeued(o) == \E w \in Workers : wpc[w] = "exec" /\ wop[w] = o

\* C23: no wake-up is lost: under fair scheduling and as long as no shutdown is
\* requested, every queue entry, pushed by run() or pushed back by a worker
\* without a notification, is eventually dequeued by a worker, and a dequeued
\* operation is executed.
PoolNoLostWakeup ==
    \A o \in Ops :
        /\ PoolQueued(o) ~> (PoolDequeued(o) \/ pool_done)
        /\ PoolDequeued(o) ~> PoolRan(o)

\* A client is inside run(), about to push and notify, while every worker is
\* blocked in _block on an empty queue.
PoolNoLostWakeupWitness ==
    /\ cpc = "locked"
    /\ pool_queue = <<>>
    /\ \A w \in Workers : wpc[w] = "waiting" /\ w \in pool_block
    /\ ~pool_done

====
